---- MODULE Spec2Model ----
(***************************************************************************)
(* LLM Council backend (backend/main.py, backend/storage.py).              *)
(*                                                                         *)
(* The model covers the SQLite conversation store, the synchronous and the *)
(* streaming send-message operations (one coroutine per request, stepped   *)
(* from suspension point to suspension point of the asyncio event loop),   *)
(* the conversation history builder, the storage functions called on       *)
(* their own, and the authentication / rate-limiting middleware.           *)
(*                                                                         *)
(*   Spec       the app: conversation endpoints and send-message requests  *)
(*   SpecHist   build_conversation_history on any stored message list      *)
(*   SpecStore  the storage functions, called with any id and values       *)
(*   SpecAuth   auth_middleware, one request at a time, with a clock       *)
(***************************************************************************)
EXTENDS Integers, Sequences, FiniteSets, TLC

\* ------------------------------------------------------------------ bounds
MaxRequests == 2      \* send-message requests issued in one behaviour
MaxStreams == 1       \* of which streaming requests
MaxHistLen == 3       \* longest message list handed to the history builder
MaxText == 2          \* distinct question / verdict texts of the builder inputs
MaxOps == 4           \* storage calls made in one behaviour of the store
MaxTicks == 2         \* clock ticks in one behaviour of the auth middleware

Requests == 1..MaxRequests

\* The conversation ids uuid4 hands out. The model follows the requests made
\* on one conversation: no storage call reads or writes a row of another id.
ConvIds == {"c1"}

\* The ids the storage functions are called with when the store is exercised
\* on its own, as test_storage.py does.
StoreIds == {"c1", "c2"}

\* ------------------------------------------------------- JSON-like values
\* A Python value as far as its truthiness and its "response" key matter:
\*   kind "absent"  the key is not in the dict / the column was never set
\*   kind "null"    None
\*   kind "empty"   {} or []
\*   kind "noresp"  a non-empty dict without a "response" key
\*   kind "resp"    a dict with "response": v
\*   kind "data"    any other non-empty list or dict, identified by v
JVal(k, x) == [kind |-> k, v |-> x]
Absent == JVal("absent", 0)
PyNone == JVal("null", 0)

\* bool(value) in Python.
Truthy(j) == j.kind \in {"noresp", "resp", "data"}

\* dict.get("response", ""): the text v, or the empty text (0) when missing.
EmptyText == 0
GetResponse(stage3) == IF stage3.kind = "resp" THEN stage3.v ELSE EmptyText

\* A TEXT column of the messages table: SQL NULL, or the JSON text of a value.
SqlNull == [isnull |-> TRUE, text |-> Absent]
SqlNullText == [isnull |-> TRUE, text |-> 0]
SqlText(c) == [isnull |-> FALSE, text |-> c]
JsonDumps(j) == [isnull |-> FALSE, text |-> j]
JsonLoads(col) == col.text

\* ------------------------------------------------------------------- state
VARIABLES
    conversations,        \* conversations table: id -> [exists, title]
    messages,             \* messages table, in id (insertion) order
    created,              \* conversation ids uuid4 has handed out so far
    kind,                 \* per request: "none", "sync" or "stream"
    pc,                   \* per request: the suspension point it is at
    conversation_id,      \* per request: path parameter
    is_first_message,     \* per request: local of the handler
    conversation,         \* per request: messages read by get_conversation
    conversation_history, \* per request: result of build_conversation_history
    title_task,           \* per request: "none", "running", "ok", "failed"
    events,               \* per request: SSE events yielded so far
    calls,                \* per request: council calls made and returned
    history_args,         \* per request: the history argument of each call
    raised,               \* per request: the exception that ended it, or NoError
    status,               \* per request: HTTP status answered, 0 while pending
    persisted,            \* per request: add_assistant_message inserts done
    builder_messages,     \* history builder on its own: the messages given
    builder_result,       \* ... the list returned
    builder_done,         \* ... whether it has been called
    deleted,              \* store on its own: ids whose row was deleted
    passed,               \* ... per id: the messages passed to the add calls
    last_call,            \* ... the storage call made last and its outcome
    AUTH_PASSWORD,        \* auth middleware: the password of the environment
    failed_attempts,      \* ... per ip: the times of its failed attempts
    now,                  \* ... time.time()
    response              \* ... the request served last and its answer

reqvars == <<kind, pc, conversation_id, is_first_message, conversation,
             conversation_history, title_task, events, calls, history_args,
             raised, status, persisted>>
dbvars == <<conversations, messages, created>>
storevars == <<deleted, passed, last_call>>
authvars == <<AUTH_PASSWORD, failed_attempts, now, response>>
\* What no send-message request touches.
histvars == <<builder_messages, builder_result, builder_done, storevars, authvars>>
vars == <<conversations, messages, created, kind, pc,
          conversation_id, is_first_message, conversation,
          conversation_history, title_task, events, calls, history_args,
          raised, status, persisted, builder_messages, builder_result,
          builder_done, deleted, passed, last_call, AUTH_PASSWORD,
          failed_attempts, now, response>>

NoError == "none"
\* Titles are numbered: 0 is "New Conversation", r the title generated from
\* the question of request r.
NewConversationTitle == 0

\* The question text of request r (request.content) and the values the
\* council calls of its turn return.
Content(r) == r
Stage1Results(r) == JVal("data", r)
Stage2Results(r) == JVal("data", r)
Stage3Result(r) == JVal("resp", r)
Metadata(r) == JVal("data", r)
GeneratedTitle(r) == r
\* {'title': title}, the payload of title_complete.
TitleData(title) == JVal("data", 0)

\* ----------------------------------------------------------------- storage
\* The conversations table as a function of the id: whether a row with that
\* id is stored, and its title column.
NoRow == [exists |-> FALSE, title |-> 0]

\* storage.get_conversation(...) is not None
ConversationExists(db_conversations, cid) ==
    cid \in DOMAIN db_conversations /\ db_conversations[cid].exists

\* A row of the messages table; req (not a column) records the request that
\* inserted it.
UserRow(cid, content, r) ==
    [conversation_id |-> cid, role |-> "user", content |-> SqlText(content),
     stage1_json |-> SqlNull, stage2_json |-> SqlNull, stage3_json |-> SqlNull,
     metadata_json |-> SqlNull, req |-> r]

\* Mutant: the metadata is not written with the turn.
MetadataColumn_AlwaysNull(metadata) == SqlNull

\* json.dumps(metadata) if metadata else None
MetadataColumn(metadata) == IF Truthy(metadata) THEN JsonDumps(metadata) ELSE SqlNull

AssistantRow(cid, stage1, stage2, stage3, metadata, r) ==
    [conversation_id |-> cid, role |-> "assistant", content |-> SqlNullText,
     stage1_json |-> JsonDumps(stage1), stage2_json |-> JsonDumps(stage2),
     stage3_json |-> JsonDumps(stage3),
     metadata_json |-> MetadataColumn(metadata), req |-> r]

\* Mutant: the new row is put in front of the table.
add_user_message_Prepends(db_messages, cid, content, r) ==
    <<UserRow(cid, content, r)>> \o db_messages

\* storage.add_user_message: the messages table after the insert (the caller
\* checks ConversationExists for the ValueError).
add_user_message(db_messages, cid, content, r) ==
    Append(db_messages, UserRow(cid, content, r))

\* storage.add_assistant_message
add_assistant_message(db_messages, cid, stage1, stage2, stage3, metadata, r) ==
    Append(db_messages, AssistantRow(cid, stage1, stage2, stage3, metadata, r))

\* Mutant: the title is written whether or not the row is there.
update_conversation_title_Upserts(db_conversations, cid, title) ==
    [db_conversations EXCEPT ![cid] = [exists |-> TRUE, title |-> title]]

\* storage.update_conversation_title: UPDATE ... WHERE id = ? changes the row
\* when there is one.
update_conversation_title(db_conversations, cid, title) ==
    IF ConversationExists(db_conversations, cid)
    THEN [db_conversations EXCEPT ![cid].title = title]
    ELSE db_conversations

\* storage.create_conversation
create_conversation(db_conversations, cid) ==
    [db_conversations EXCEPT
        ![cid] = [exists |-> TRUE, title |-> NewConversationTitle]]

\* Mutant: DELETE FROM conversations without the WHERE clause.
delete_conversation_All(db_conversations, cid) ==
    [c \in DOMAIN db_conversations |-> NoRow]

\* storage.delete_conversation: DELETE FROM conversations WHERE id = ?
delete_conversation(db_conversations, cid) ==
    [db_conversations EXCEPT ![cid] = NoRow]

\* cursor.rowcount of that DELETE, and the value returned: rowcount > 0.
delete_rowcount(db_conversations, cid) ==
    IF ConversationExists(db_conversations, cid) THEN 1 ELSE 0
delete_conversation_returns(db_conversations, cid) ==
    delete_rowcount(db_conversations, cid) > 0

\* One message dict of get_conversation, built from a row.
RowToMessage(row) ==
    IF row.role = "user"
    THEN [role |-> "user", content |-> row.content.text, stage1 |-> Absent,
          stage2 |-> Absent, stage3 |-> Absent, metadata |-> Absent]
    ELSE [role |-> "assistant", content |-> EmptyText,
          stage1 |-> JsonLoads(row.stage1_json),
          stage2 |-> JsonLoads(row.stage2_json),
          stage3 |-> JsonLoads(row.stage3_json),
          metadata |-> IF row.metadata_json.isnull THEN Absent
                       ELSE JsonLoads(row.metadata_json)]

RECURSIVE MapRows(_)
MapRows(rows) ==
    IF rows = <<>> THEN <<>>
    ELSE <<RowToMessage(Head(rows))>> \o MapRows(Tail(rows))

\* storage.get_conversation(cid)["messages"]: the conversation's rows in id
\* order.
RowsOf(db_messages, cid) ==
    SelectSeq(db_messages, LAMBDA row: row.conversation_id = cid)
get_conversation_messages(db_messages, cid) == MapRows(RowsOf(db_messages, cid))

\* storage.get_conversation: None (found FALSE) without a conversations row,
\* else the title and the messages.
get_conversation(db_conversations, db_messages, cid) ==
    IF ConversationExists(db_conversations, cid)
    THEN [found |-> TRUE, title |-> db_conversations[cid].title,
          messages |-> get_conversation_messages(db_messages, cid)]
    ELSE [found |-> FALSE, title |-> 0, messages |-> <<>>]

\* storage.list_conversations: one entry per conversations row, with the
\* count of the message rows joined to it (the entries as a set; their order,
\* by created_at, is not part of the model).
list_conversations(db_conversations, db_messages) ==
    {[id |-> c, title |-> db_conversations[c].title,
      message_count |-> Len(RowsOf(db_messages, c))] :
        c \in {d \in DOMAIN db_conversations : db_conversations[d].exists}}

\* ---------------------------------------------------------- history builder
\* main.build_conversation_history, the while loop from index i (0-based).
RECURSIVE HistoryLoop(_, _)
HistoryLoop(msgs, i) ==
    IF ~(i < Len(msgs) - 1) THEN <<>>
    ELSE LET msg == msgs[i + 1]
             paired == /\ msg.role = "user"
                       /\ i + 1 < Len(msgs)
                       /\ msgs[i + 2].role = "assistant"
                       /\ Truthy(msgs[i + 2].stage3)
         IN  IF paired
             THEN <<[question |-> msg.content,
                     verdict |-> GetResponse(msgs[i + 2].stage3)]>>
                  \o HistoryLoop(msgs, i + 2)
             ELSE HistoryLoop(msgs, i + 1)

build_conversation_history(msgs) == HistoryLoop(msgs, 0)

\* ------------------------------------------------------------------ events
\* One server-sent event: json.dumps of a dict with "type" and, by type,
\* "data", "metadata" or "message".
Event(type, data, metadata, message) ==
    [type |-> type, data |-> data, metadata |-> metadata, message |-> message]
PlainEvent(type) == Event(type, Absent, Absent, "")
DataEvent(type, data) == Event(type, data, Absent, "")
\* Mutant: the error event goes out without str(e).
ErrorEvent_NoMessage(message) == Event("error", Absent, Absent, "")
ErrorEvent(message) == Event("error", Absent, Absent, message)

\* str(e) of the exceptions a turn can meet.
NotFoundError == "Conversation not found"
Stage1Error == "stage1 failed"
Stage2Error == "stage2 failed"
AggregateError == "aggregate failed"
Stage3Error == "stage3 failed"
TitleError == "title failed"
CouncilError == "council failed"

\* ------------------------------------------------------- auth middleware
\* Rate limiting constants of main.py.
RATE_LIMIT_WINDOW == 900
RATE_LIMIT_MAX_ATTEMPTS == 5

\* Client addresses, and passwords as numbers: 0 is no password (the variable
\* is not set, or set to the empty string: both are falsy), 1 the password
\* configured, 2 any other password.
IPs == {"ip1", "ip2"}
NoPassword == 0
ThePassword == 1
WrongPassword == 2

\* failed_attempts[ip]: the key is missing, or its list of timestamps.
NoAttempts == [present |-> FALSE, times |-> <<>>]
NoResponse == [ip |-> "", path |-> "", header |-> "", password |-> 0,
               status |-> 0, handled |-> FALSE]

\* No storage call made yet.
NoCall == [n |-> 0, op |-> "none", cid |-> "", ret |-> "none"]

\* ---------------------------------------------------------------- Init
Init ==
    /\ conversations = [c \in ConvIds |-> NoRow]
    /\ messages = <<>>
    /\ created = {}
    /\ kind = [r \in Requests |-> "none"]
    /\ pc = [r \in Requests |-> "idle"]
    /\ conversation_id = [r \in Requests |-> ""]
    /\ is_first_message = [r \in Requests |-> FALSE]
    /\ conversation = [r \in Requests |-> <<>>]
    /\ conversation_history = [r \in Requests |-> <<>>]
    /\ title_task = [r \in Requests |-> "none"]
    /\ events = [r \in Requests |-> <<>>]
    /\ calls = [r \in Requests |-> <<>>]
    /\ history_args = [r \in Requests |-> <<>>]
    /\ raised = [r \in Requests |-> NoError]
    /\ status = [r \in Requests |-> 0]
    /\ persisted = [r \in Requests |-> 0]
    /\ builder_messages = <<>>
    /\ builder_result = <<>>
    /\ builder_done = FALSE
    /\ deleted = {}
    /\ passed = [c \in StoreIds |-> <<>>]
    /\ last_call = NoCall
    /\ AUTH_PASSWORD = NoPassword
    /\ failed_attempts = [ip \in IPs |-> NoAttempts]
    /\ now = 0
    /\ response = NoResponse

\* ------------------------------------------------- conversation endpoints
\* POST /api/conversations: uuid4 gives an id never used before.
api_create_conversation(cid) ==
    /\ cid \notin created
    /\ created' = created \cup {cid}
    /\ conversations' = create_conversation(conversations, cid)
    /\ UNCHANGED <<messages, reqvars, histvars>>

\* DELETE /api/conversations/{id} of a stored conversation (ids are never
\* handed out twice, so a conversation is deleted at most once).
api_delete_conversation(cid) ==
    /\ ConversationExists(conversations, cid)
    /\ conversations' = delete_conversation(conversations, cid)
    /\ UNCHANGED <<messages, created, reqvars, histvars>>

\* Requests are numbered in the order they arrive.
NextRequest(r) == kind[r] = "none" /\ \A q \in Requests : q < r => kind[q] # "none"

\* Mutant: the conversation is read after the user message was inserted.
MessagesRead_AfterInsert(r, cid) ==
    get_conversation_messages(add_user_message(messages, cid, Content(r), r), cid)

\* The conversation["messages"] a send-message handler works from.
MessagesRead(r, cid) == get_conversation_messages(messages, cid)

\* Lines 219-228 and 268-278: the conversation is read, is_first_message and
\* the history are computed from what was read.
ReadConversation(r, cid) ==
    /\ conversation_id' = [conversation_id EXCEPT ![r] = cid]
    /\ conversation' = [conversation EXCEPT ![r] = MessagesRead(r, cid)]
    /\ is_first_message' =
          [is_first_message EXCEPT ![r] = (Len(MessagesRead(r, cid)) = 0)]
    /\ conversation_history' =
          [conversation_history EXCEPT
              ![r] = build_conversation_history(MessagesRead(r, cid))]

\* raise HTTPException(status_code=404) before anything else is done.
AnswerNotFound(r, k, cid) ==
    /\ kind' = [kind EXCEPT ![r] = k]
    /\ conversation_id' = [conversation_id EXCEPT ![r] = cid]
    /\ pc' = [pc EXCEPT ![r] = "done"]
    /\ status' = [status EXCEPT ![r] = 404]
    /\ raised' = [raised EXCEPT ![r] = NotFoundError]
    /\ UNCHANGED <<dbvars, histvars, is_first_message, conversation, conversation_history,
                   title_task, events, calls, history_args, persisted>>

\* --------------------------------------------- streaming: send_message_stream
\* POST .../message/stream: the handler body up to the StreamingResponse; the
\* generator has not run yet.
send_message_stream(r, cid) ==
    /\ NextRequest(r)
    /\ Cardinality({q \in Requests : kind[q] = "stream"}) < MaxStreams
    /\ IF ConversationExists(conversations, cid)
       THEN /\ kind' = [kind EXCEPT ![r] = "stream"]
            /\ ReadConversation(r, cid)
            /\ pc' = [pc EXCEPT ![r] = "init"]
            /\ status' = [status EXCEPT ![r] = 200]
            /\ UNCHANGED <<dbvars, histvars, title_task, events, calls,
                           history_args, raised, persisted>>
       ELSE AnswerNotFound(r, "stream", cid)

Emit(r, ev) == events' = [events EXCEPT ![r] = Append(@, ev)]
Goto(r, label) == pc' = [pc EXCEPT ![r] = label]
\* A step of the turn that passes no history: a return, a raise, the title call.
Log(r, what) ==
    /\ calls' = [calls EXCEPT ![r] = Append(@, what)]
    /\ UNCHANGED history_args

\* Lines 278 and 241: conversation_history if conversation_history else None
NoHistory == [present |-> FALSE, entries |-> <<>>]
\* Mutant: the list is passed as it is, empty or not.
history_for_council_PassesList(history) == [present |-> TRUE, entries |-> history]
history_for_council(history) ==
    IF Len(history) > 0 THEN [present |-> TRUE, entries |-> history] ELSE NoHistory

\* A council call (stage 1, 2, 3 or run_full_council) with its history argument.
Call(r, what, history) ==
    /\ calls' = [calls EXCEPT ![r] = Append(@, what)]
    /\ history_args' = [history_args EXCEPT
          ![r] = Append(@, history_for_council(history))]

\* except Exception as e: yield the error event (lines 328-330). Resumed
\* after this yield the generator only returns, so the yield ends it.
Raise(r, message) ==
    /\ raised' = [raised EXCEPT ![r] = message]
    /\ Emit(r, ErrorEvent(message))
    /\ Goto(r, "done")

At(r, label) == kind[r] = "stream" /\ pc[r] = label

\* Mutant: the title task is started on every turn, not only the first.
GenStart_AlwaysStartsTitle(r) ==
    /\ At(r, "init")
    /\ IF ConversationExists(conversations, conversation_id[r])
       THEN /\ messages' = add_user_message(messages, conversation_id[r], Content(r), r)
            /\ title_task' = [title_task EXCEPT ![r] = "running"]
            /\ Emit(r, PlainEvent("stage1_start"))
            /\ Goto(r, "yield_stage1_start")
            /\ UNCHANGED raised
       ELSE /\ Raise(r, NotFoundError)
            /\ UNCHANGED <<messages, title_task>>
    /\ UNCHANGED <<conversations, created, histvars, kind, conversation_id,
                   is_first_message, conversation, conversation_history, calls,
                   history_args,
                   status, persisted>>

\* Lines 282-291: first step of the generator, up to the first yield.
GenStart(r) ==
    /\ At(r, "init")
    /\ IF ConversationExists(conversations, conversation_id[r])
       THEN /\ messages' = add_user_message(messages, conversation_id[r], Content(r), r)
            /\ title_task' = [title_task EXCEPT
                  ![r] = IF is_first_message[r] THEN "running" ELSE "none"]
            /\ Emit(r, PlainEvent("stage1_start"))
            /\ Goto(r, "yield_stage1_start")
            /\ UNCHANGED raised
       ELSE /\ Raise(r, NotFoundError)
            /\ UNCHANGED <<messages, title_task>>
    /\ UNCHANGED <<conversations, created, histvars, kind, conversation_id,
                   is_first_message, conversation, conversation_history, calls,
                   history_args,
                   status, persisted>>

\* What a step of the generator that touches neither the store nor the title
\* task leaves alone.
GenFrame == UNCHANGED <<dbvars, histvars, kind, conversation_id, is_first_message,
                        conversation, conversation_history, title_task, status,
                        persisted>>

\* Line 292: resumed after stage1_start, the generator awaits stage 1.
CallStage1(r) ==
    /\ At(r, "yield_stage1_start")
    /\ Call(r, "stage1_call", conversation_history[r])
    /\ Goto(r, "await_stage1")
    /\ UNCHANGED <<events, raised>>
    /\ GenFrame

\* Lines 292-293: stage 1 returned.
Stage1Return(r) ==
    /\ At(r, "await_stage1")
    /\ Log(r, "stage1_return")
    /\ Emit(r, DataEvent("stage1_complete", Stage1Results(r)))
    /\ Goto(r, "yield_stage1_complete")
    /\ UNCHANGED raised
    /\ GenFrame

Stage1Raise(r) ==
    /\ At(r, "await_stage1")
    /\ Log(r, "stage1_raise")
    /\ Raise(r, Stage1Error)
    /\ GenFrame

\* Line 296
YieldStage2Start(r) ==
    /\ At(r, "yield_stage1_complete")
    /\ Emit(r, PlainEvent("stage2_start"))
    /\ Goto(r, "yield_stage2_start")
    /\ UNCHANGED <<calls, history_args, raised>>
    /\ GenFrame

\* Line 297
CallStage2(r) ==
    /\ At(r, "yield_stage2_start")
    /\ Call(r, "stage2_call", conversation_history[r])
    /\ Goto(r, "await_stage2")
    /\ UNCHANGED <<events, raised>>
    /\ GenFrame

\* Lines 297-299: stage 2 returned, the aggregate is computed at once and
\* both go out in stage2_complete.
Stage2Return(r) ==
    /\ At(r, "await_stage2")
    /\ calls' = [calls EXCEPT
          ![r] = @ \o <<"stage2_return", "aggregate_call", "aggregate_return">>]
    /\ UNCHANGED history_args
    /\ Emit(r, Event("stage2_complete", Stage2Results(r), Metadata(r), ""))
    /\ Goto(r, "yield_stage2_complete")
    /\ UNCHANGED raised
    /\ GenFrame

\* Mutant: a stage 2 failure is taken as an empty result and the turn goes on.
Stage2Raise_Continues(r) ==
    /\ At(r, "await_stage2")
    /\ Log(r, "stage2_raise")
    /\ Emit(r, Event("stage2_complete", JVal("empty", 0), Metadata(r), ""))
    /\ Goto(r, "yield_stage2_complete")
    /\ UNCHANGED raised
    /\ GenFrame

Stage2Raise(r) ==
    /\ At(r, "await_stage2")
    /\ Log(r, "stage2_raise")
    /\ Raise(r, Stage2Error)
    /\ GenFrame

\* Line 298 raising.
AggregateRaise(r) ==
    /\ At(r, "await_stage2")
    /\ calls' = [calls EXCEPT
          ![r] = @ \o <<"stage2_return", "aggregate_call", "aggregate_raise">>]
    /\ UNCHANGED history_args
    /\ Raise(r, AggregateError)
    /\ GenFrame

\* Line 302
YieldStage3Start(r) ==
    /\ At(r, "yield_stage2_complete")
    /\ Emit(r, PlainEvent("stage3_start"))
    /\ Goto(r, "yield_stage3_start")
    /\ UNCHANGED <<calls, history_args, raised>>
    /\ GenFrame

\* Line 303
CallStage3(r) ==
    /\ At(r, "yield_stage3_start")
    /\ Call(r, "stage3_call", conversation_history[r])
    /\ Goto(r, "await_stage3")
    /\ UNCHANGED <<events, raised>>
    /\ GenFrame

\* Mutant: the assistant message is stored as soon as stage 3 has returned.
Stage3Return_SavesAtOnce(r) ==
    /\ At(r, "await_stage3")
    /\ Log(r, "stage3_return")
    /\ messages' = add_assistant_message(messages, conversation_id[r],
                       Stage1Results(r), Stage2Results(r), Stage3Result(r),
                       Metadata(r), r)
    /\ persisted' = [persisted EXCEPT ![r] = @ + 1]
    /\ Emit(r, DataEvent("stage3_complete", Stage3Result(r)))
    /\ Goto(r, "yield_stage3_complete")
    /\ UNCHANGED <<conversations, created, histvars, kind, conversation_id,
                   is_first_message, conversation, conversation_history,
                   title_task, status, raised>>

\* Lines 303-304
Stage3Return(r) ==
    /\ At(r, "await_stage3")
    /\ Log(r, "stage3_return")
    /\ Emit(r, DataEvent("stage3_complete", Stage3Result(r)))
    /\ Goto(r, "yield_stage3_complete")
    /\ UNCHANGED raised
    /\ GenFrame

Stage3Raise(r) ==
    /\ At(r, "await_stage3")
    /\ Log(r, "stage3_raise")
    /\ Raise(r, Stage3Error)
    /\ GenFrame

\* What the tail of the generator (lines 306-326) leaves alone.
TailFrame == UNCHANGED <<created, histvars, kind, conversation_id,
                         is_first_message, conversation, conversation_history,
                         title_task, status, calls, history_args>>

\* Mutant: complete is yielded before the assistant message is stored.
SaveAndComplete_YieldsBeforeSaving(r) ==
    /\ Emit(r, PlainEvent("complete"))
    /\ Goto(r, "done")
    /\ UNCHANGED <<raised, messages, persisted>>

\* Lines 312-326: the assistant message is stored, then complete is yielded.
\* Resumed after this yield the generator only returns, so the yield ends it.
SaveAndComplete(r) ==
    IF ConversationExists(conversations, conversation_id[r])
    THEN /\ messages' = add_assistant_message(messages, conversation_id[r],
                            Stage1Results(r), Stage2Results(r), Stage3Result(r),
                            Metadata(r), r)
         /\ persisted' = [persisted EXCEPT ![r] = @ + 1]
         /\ Emit(r, PlainEvent("complete"))
         /\ Goto(r, "done")
         /\ UNCHANGED raised
    ELSE /\ Raise(r, NotFoundError)
         /\ UNCHANGED <<messages, persisted>>

\* Lines 308-310 once the title task is done: its result or its exception.
JoinTitle(r) ==
    IF title_task[r] = "failed"
    THEN /\ Raise(r, TitleError)
         /\ UNCHANGED conversations
    ELSE IF ConversationExists(conversations, conversation_id[r])
         THEN /\ conversations' = update_conversation_title(
                     conversations, conversation_id[r], GeneratedTitle(r))
              /\ Emit(r, DataEvent("title_complete", TitleData(GeneratedTitle(r))))
              /\ Goto(r, "yield_title_complete")
              /\ UNCHANGED raised
         ELSE /\ Raise(r, NotFoundError)
              /\ UNCHANGED conversations

\* Mutant: a title task that is still running is not waited for.
AfterStage3Complete_SkipsRunningTitle(r) ==
    /\ At(r, "yield_stage3_complete")
    /\ IF title_task[r] \in {"none", "running"}
       THEN SaveAndComplete(r) /\ UNCHANGED conversations
       ELSE JoinTitle(r) /\ UNCHANGED <<messages, persisted>>
    /\ TailFrame

\* Lines 306-326, resumed after stage3_complete: with no title task the turn
\* is saved; a finished task is joined without suspending; a running one is
\* awaited.
AfterStage3Complete(r) ==
    /\ At(r, "yield_stage3_complete")
    /\ CASE title_task[r] = "none" ->
              SaveAndComplete(r) /\ UNCHANGED conversations
         [] title_task[r] = "running" ->
              /\ Goto(r, "await_title_task")
              /\ UNCHANGED <<conversations, messages, persisted, events, raised>>
         [] OTHER ->
              JoinTitle(r) /\ UNCHANGED <<messages, persisted>>
    /\ TailFrame

\* Line 308: the awaited title task finished.
TitleJoined(r) ==
    /\ At(r, "await_title_task")
    /\ title_task[r] \in {"ok", "failed"}
    /\ JoinTitle(r)
    /\ UNCHANGED <<messages, persisted>>
    /\ TailFrame

\* Lines 312-326, resumed after title_complete.
AfterTitleComplete(r) ==
    /\ At(r, "yield_title_complete")
    /\ SaveAndComplete(r)
    /\ UNCHANGED conversations
    /\ TailFrame

\* The title task created at line 288 runs on the event loop on its own.
TitleTaskReturn(r) ==
    /\ title_task[r] = "running"
    /\ title_task' = [title_task EXCEPT ![r] = "ok"]
    /\ UNCHANGED <<dbvars, histvars, kind, pc, conversation_id, is_first_message,
                   conversation, conversation_history, events, calls,
                   history_args, raised,
                   status, persisted>>

TitleTaskRaise(r) ==
    /\ title_task[r] = "running"
    /\ title_task' = [title_task EXCEPT ![r] = "failed"]
    /\ UNCHANGED <<dbvars, histvars, kind, pc, conversation_id, is_first_message,
                   conversation, conversation_history, events, calls,
                   history_args, raised,
                   status, persisted>>

\* The points at which the generator is suspended with work left: its yields
\* before complete and its awaits.
YieldPoints == {"yield_stage1_start", "yield_stage1_complete",
                "yield_stage2_start", "yield_stage2_complete",
                "yield_stage3_start", "yield_stage3_complete",
                "yield_title_complete"}
AwaitPoints == {"await_stage1", "await_stage2", "await_stage3",
                "await_title_task"}

\* The client disconnects: the generator is closed where it is suspended
\* (GeneratorExit / CancelledError, neither an Exception).
Teardown(r) ==
    /\ kind[r] = "stream"
    /\ pc[r] \in YieldPoints \cup AwaitPoints
    /\ Goto(r, "cancelled")
    /\ UNCHANGED <<events, calls, history_args, raised>>
    /\ GenFrame

\* ------------------------------------------------- synchronous: send_message
SyncFrame == UNCHANGED <<created, histvars, kind, conversation_id,
                         is_first_message, conversation, conversation_history,
                         title_task, events>>

\* The request fails with an unhandled exception: HTTP 500.
SyncFail(r, message) ==
    /\ raised' = [raised EXCEPT ![r] = message]
    /\ status' = [status EXCEPT ![r] = 500]
    /\ Goto(r, "done")

\* Lines 219-239, up to the first await: the title call on a first message,
\* run_full_council otherwise.
send_message(r, cid) ==
    /\ NextRequest(r)
    /\ IF ConversationExists(conversations, cid)
       THEN /\ kind' = [kind EXCEPT ![r] = "sync"]
            /\ ReadConversation(r, cid)
            /\ messages' = add_user_message(messages, cid, Content(r), r)
            /\ IF Len(MessagesRead(r, cid)) = 0
               THEN Goto(r, "await_title") /\ Log(r, "title_call")
               ELSE /\ Goto(r, "await_council")
                    /\ Call(r, "council_call",
                            build_conversation_history(MessagesRead(r, cid)))
            /\ UNCHANGED <<conversations, created, histvars, title_task, events,
                           raised, status, persisted>>
       ELSE AnswerNotFound(r, "sync", cid)

\* Lines 235-239: the title call returned; the title is stored and the
\* council is called.
SyncTitleReturn(r) ==
    /\ kind[r] = "sync" /\ pc[r] = "await_title"
    /\ IF ConversationExists(conversations, conversation_id[r])
       THEN /\ conversations' = update_conversation_title(
                   conversations, conversation_id[r], GeneratedTitle(r))
            /\ calls' = [calls EXCEPT ![r] = @ \o <<"title_return", "council_call">>]
            /\ history_args' = [history_args EXCEPT
                  ![r] = Append(@, history_for_council(conversation_history[r]))]
            /\ Goto(r, "await_council")
            /\ UNCHANGED <<raised, status>>
       ELSE /\ SyncFail(r, NotFoundError)
            /\ Log(r, "title_return")
            /\ UNCHANGED conversations
    /\ UNCHANGED <<messages, persisted>>
    /\ SyncFrame

\* Line 235 raising.
SyncTitleRaise(r) ==
    /\ kind[r] = "sync" /\ pc[r] = "await_title"
    /\ SyncFail(r, TitleError)
    /\ Log(r, "title_raise")
    /\ UNCHANGED <<conversations, messages, persisted>>
    /\ SyncFrame

\* Lines 239-259: run_full_council returned; the assistant message is stored
\* and the stages are returned.
CouncilReturn(r) ==
    /\ kind[r] = "sync" /\ pc[r] = "await_council"
    /\ Log(r, "council_return")
    /\ IF ConversationExists(conversations, conversation_id[r])
       THEN /\ messages' = add_assistant_message(messages, conversation_id[r],
                               Stage1Results(r), Stage2Results(r),
                               Stage3Result(r), Metadata(r), r)
            /\ persisted' = [persisted EXCEPT ![r] = @ + 1]
            /\ status' = [status EXCEPT ![r] = 200]
            /\ Goto(r, "done")
            /\ UNCHANGED raised
       ELSE /\ SyncFail(r, NotFoundError)
            /\ UNCHANGED <<messages, persisted>>
    /\ UNCHANGED conversations
    /\ SyncFrame

\* Line 239 raising.
CouncilRaise(r) ==
    /\ kind[r] = "sync" /\ pc[r] = "await_council"
    /\ Log(r, "council_raise")
    /\ SyncFail(r, CouncilError)
    /\ UNCHANGED <<conversations, messages, persisted>>
    /\ SyncFrame

\* ------------------------------------------------------------ specification
Next ==
    \/ \E cid \in ConvIds : api_create_conversation(cid)
    \/ \E cid \in ConvIds : api_delete_conversation(cid)
    \/ \E r \in Requests, cid \in ConvIds : send_message_stream(r, cid)
    \/ \E r \in Requests, cid \in ConvIds : send_message(r, cid)
    \/ \E r \in Requests : GenStart(r)
    \/ \E r \in Requests : CallStage1(r)
    \/ \E r \in Requests : Stage1Return(r)
    \/ \E r \in Requests : Stage1Raise(r)
    \/ \E r \in Requests : YieldStage2Start(r)
    \/ \E r \in Requests : CallStage2(r)
    \/ \E r \in Requests : Stage2Return(r)
    \/ \E r \in Requests : Stage2Raise(r)
    \/ \E r \in Requests : AggregateRaise(r)
    \/ \E r \in Requests : YieldStage3Start(r)
    \/ \E r \in Requests : CallStage3(r)
    \/ \E r \in Requests : Stage3Return(r)
    \/ \E r \in Requests : Stage3Raise(r)
    \/ \E r \in Requests : AfterStage3Complete(r)
    \/ \E r \in Requests : TitleJoined(r)
    \/ \E r \in Requests : AfterTitleComplete(r)
    \/ \E r \in Requests : TitleTaskReturn(r)
    \/ \E r \in Requests : TitleTaskRaise(r)
    \/ \E r \in Requests : Teardown(r)
    \/ \E r \in Requests : SyncTitleReturn(r)
    \/ \E r \in Requests : SyncTitleRaise(r)
    \/ \E r \in Requests : CouncilReturn(r)
    \/ \E r \in Requests : CouncilRaise(r)

Spec == Init /\ [][Next]_vars

\* ------------------------------------------- the history builder on its own
\* The message dicts get_conversation can return: user messages with a
\* content, assistant messages whose stage3 is whatever was stored (None, an
\* empty dict, a dict without "response" as in test_storage.py, or a dict
\* with one).
Texts == 1..MaxText
UserMessage(c) ==
    [role |-> "user", content |-> c, stage1 |-> Absent, stage2 |-> Absent,
     stage3 |-> Absent, metadata |-> Absent]
AssistantMessage(stage3) ==
    [role |-> "assistant", content |-> EmptyText, stage1 |-> JVal("data", 0),
     stage2 |-> JVal("data", 0), stage3 |-> stage3, metadata |-> Absent]
Stage3Values ==
    {PyNone, JVal("empty", 0), JVal("noresp", 0)} \cup {JVal("resp", v) : v \in Texts}
StoredMessages ==
    {UserMessage(c) : c \in Texts} \cup {AssistantMessage(s) : s \in Stage3Values}
MessageLists == UNION {[1..n -> StoredMessages] : n \in 0..MaxHistLen}

InitHist ==
    /\ conversations = [c \in ConvIds |-> NoRow]
    /\ messages = <<>>
    /\ created = {}
    /\ kind = [r \in Requests |-> "none"]
    /\ pc = [r \in Requests |-> "idle"]
    /\ conversation_id = [r \in Requests |-> ""]
    /\ is_first_message = [r \in Requests |-> FALSE]
    /\ conversation = [r \in Requests |-> <<>>]
    /\ conversation_history = [r \in Requests |-> <<>>]
    /\ title_task = [r \in Requests |-> "none"]
    /\ events = [r \in Requests |-> <<>>]
    /\ calls = [r \in Requests |-> <<>>]
    /\ history_args = [r \in Requests |-> <<>>]
    /\ raised = [r \in Requests |-> NoError]
    /\ status = [r \in Requests |-> 0]
    /\ persisted = [r \in Requests |-> 0]
    /\ builder_messages \in MessageLists
    /\ builder_result = <<>>
    /\ builder_done = FALSE
    /\ deleted = {}
    /\ passed = [c \in StoreIds |-> <<>>]
    /\ last_call = NoCall
    /\ AUTH_PASSWORD = NoPassword
    /\ failed_attempts = [ip \in IPs |-> NoAttempts]
    /\ now = 0
    /\ response = NoResponse

\* build_conversation_history(builder_messages) is called.
BuildHistory ==
    /\ ~builder_done
    /\ builder_result' = build_conversation_history(builder_messages)
    /\ builder_done' = TRUE
    /\ UNCHANGED <<dbvars, reqvars, builder_messages, storevars, authvars>>

NextHist == BuildHistory

SpecHist == InitHist /\ [][NextHist]_vars

\* ------------------------------------------------------ the store on its own
\* The storage functions called directly, as test_storage.py does, with any
\* id (stored or not) and any values. An id can be created again once its
\* row was deleted.
StoreStage1 == JVal("data", 1)
StoreStage2 == JVal("data", 2)
StoreStage3Values == {JVal("resp", 1), JVal("noresp", 0)}
\* metadata: None (the default), {} or a dict with the label mapping.
StoreMetadataValues == {PyNone, JVal("empty", 0), JVal("data", 1)}

\* The assistant message as passed to add_assistant_message.
PassedAssistantMessage(stage3, metadata) ==
    [role |-> "assistant", content |-> EmptyText, stage1 |-> StoreStage1,
     stage2 |-> StoreStage2, stage3 |-> stage3, metadata |-> metadata]

InitStore ==
    /\ conversations = [c \in StoreIds |-> NoRow]
    /\ messages = <<>>
    /\ created = {}
    /\ kind = [r \in Requests |-> "none"]
    /\ pc = [r \in Requests |-> "idle"]
    /\ conversation_id = [r \in Requests |-> ""]
    /\ is_first_message = [r \in Requests |-> FALSE]
    /\ conversation = [r \in Requests |-> <<>>]
    /\ conversation_history = [r \in Requests |-> <<>>]
    /\ title_task = [r \in Requests |-> "none"]
    /\ events = [r \in Requests |-> <<>>]
    /\ calls = [r \in Requests |-> <<>>]
    /\ history_args = [r \in Requests |-> <<>>]
    /\ raised = [r \in Requests |-> NoError]
    /\ status = [r \in Requests |-> 0]
    /\ persisted = [r \in Requests |-> 0]
    /\ builder_messages = <<>>
    /\ builder_result = <<>>
    /\ builder_done = FALSE
    /\ deleted = {}
    /\ passed = [c \in StoreIds |-> <<>>]
    /\ last_call = NoCall
    /\ AUTH_PASSWORD = NoPassword
    /\ failed_attempts = [ip \in IPs |-> NoAttempts]
    /\ now = 0
    /\ response = NoResponse

\* The call made in this step and what it returned or raised.
Returned(op, cid, ret) ==
    /\ last_call.n < MaxOps
    /\ last_call' = [n |-> last_call.n + 1, op |-> op, cid |-> cid, ret |-> ret]

StoreFrame == UNCHANGED <<reqvars, builder_messages, builder_result, builder_done,
                          authvars>>

\* storage.create_conversation(cid), cid not stored.
call_create_conversation(cid) ==
    /\ ~ConversationExists(conversations, cid)
    /\ conversations' = create_conversation(conversations, cid)
    /\ created' = created \cup {cid}
    /\ Returned("create_conversation", cid, "dict")
    /\ UNCHANGED <<messages, deleted, passed>>
    /\ StoreFrame

\* storage.add_user_message(cid, content)
call_add_user_message(cid, content) ==
    /\ IF ConversationExists(conversations, cid)
       THEN /\ messages' = add_user_message(messages, cid, content, 0)
            /\ passed' = [passed EXCEPT ![cid] = Append(@, UserMessage(content))]
            /\ Returned("add_user_message", cid, "None")
       ELSE /\ Returned("add_user_message", cid, "ValueError")
            /\ UNCHANGED <<messages, passed>>
    /\ UNCHANGED <<conversations, created, deleted>>
    /\ StoreFrame

\* storage.add_assistant_message(cid, stage1, stage2, stage3, metadata)
call_add_assistant_message(cid, stage3, metadata) ==
    /\ IF ConversationExists(conversations, cid)
       THEN /\ messages' = add_assistant_message(messages, cid, StoreStage1,
                               StoreStage2, stage3, metadata, 0)
            /\ passed' = [passed EXCEPT
                  ![cid] = Append(@, PassedAssistantMessage(stage3, metadata))]
            /\ Returned("add_assistant_message", cid, "None")
       ELSE /\ Returned("add_assistant_message", cid, "ValueError")
            /\ UNCHANGED <<messages, passed>>
    /\ UNCHANGED <<conversations, created, deleted>>
    /\ StoreFrame

\* storage.update_conversation_title(cid, title)
call_update_conversation_title(cid, title) ==
    /\ conversations' = update_conversation_title(conversations, cid, title)
    /\ Returned("update_conversation_title", cid,
                IF ConversationExists(conversations, cid) THEN "None"
                ELSE "ValueError")
    /\ UNCHANGED <<messages, created, deleted, passed>>
    /\ StoreFrame

\* storage.delete_conversation(cid)
call_delete_conversation(cid) ==
    /\ conversations' = delete_conversation(conversations, cid)
    /\ deleted' = IF ConversationExists(conversations, cid)
                  THEN deleted \cup {cid} ELSE deleted
    /\ Returned("delete_conversation", cid,
                IF delete_conversation_returns(conversations, cid) THEN "True"
                ELSE "False")
    /\ UNCHANGED <<messages, created, passed>>
    /\ StoreFrame

NextStore ==
    \/ \E cid \in StoreIds : call_create_conversation(cid)
    \/ \E cid \in StoreIds, content \in Texts : call_add_user_message(cid, content)
    \/ \E cid \in StoreIds, stage3 \in StoreStage3Values,
          metadata \in StoreMetadataValues :
            call_add_assistant_message(cid, stage3, metadata)
    \/ \E cid \in StoreIds, title \in Texts :
            call_update_conversation_title(cid, title)
    \/ \E cid \in StoreIds : call_delete_conversation(cid)

SpecStore == InitStore /\ [][NextStore]_vars

\* ------------------------------------------------ the middleware on its own
\* The Authorization header of a request, by the path auth_middleware takes
\* with it: "missing" is no header or one that does not start with "Basic ",
\* "malformed" a Basic header whose payload does not decode or decodes to
\* text without a colon (both end in the except clause), "basic" one that
\* decodes to user:password.
AuthHeaders ==
    {[kind |-> k, password |-> NoPassword] : k \in {"missing", "malformed"}}
    \cup {[kind |-> "basic", password |-> p] : p \in {ThePassword, WrongPassword}}

\* Lines 82-90: the header passes when it is Basic, decodes, splits at the
\* first colon and its password compares equal to AUTH_PASSWORD.
\* Mutant: any Basic header that decodes to user:password passes.
CredentialsPass_AnyPassword(header, auth_password) == header.kind = "basic"
CredentialsPass(header, auth_password) ==
    /\ header.kind = "basic"
    /\ header.password = auth_password

\* Lines 69-71: the first address of X-Forwarded-For (given as the list of
\* its comma-separated parts, empty when the header is missing), else the
\* peer address.
ForwardedFors == {<<>>, <<"ip2", "ip1">>}
client_ip(forwarded_for, host) ==
    IF Len(forwarded_for) = 0 THEN host ELSE forwarded_for[1]

\* The list comprehension of is_rate_limited: the attempts t with
\* now - t < RATE_LIMIT_WINDOW, in order.
\* Mutant: attempts exactly one window old still count.
RecentAttempts_Inclusive(times, t_now) ==
    SelectSeq(times, LAMBDA t : t_now - t <= RATE_LIMIT_WINDOW)
RecentAttempts(times, t_now) ==
    SelectSeq(times, LAMBDA t : t_now - t < RATE_LIMIT_WINDOW)

\* is_rate_limited(ip): failed_attempts after the call (the list of ip is
\* pruned when the key is there) and the value returned.
is_rate_limited_effect(attempts, ip, t_now) ==
    IF ~attempts[ip].present THEN attempts
    ELSE [attempts EXCEPT ![ip].times = RecentAttempts(@, t_now)]
is_rate_limited(attempts, ip, t_now) ==
    /\ attempts[ip].present
    /\ Len(RecentAttempts(attempts[ip].times, t_now)) >= RATE_LIMIT_MAX_ATTEMPTS

\* record_failed_attempt(ip)
record_failed_attempt(attempts, ip, t_now) ==
    [attempts EXCEPT ![ip] = [present |-> TRUE, times |-> Append(@.times, t_now)]]

\* Mutant: the whole dict is emptied.
clear_failed_attempts_All(attempts, ip) == [i \in IPs |-> NoAttempts]
\* clear_failed_attempts(ip)
clear_failed_attempts(attempts, ip) ==
    [attempts EXCEPT ![ip] = NoAttempts]

\* The environment of the process: AUTH_PASSWORD set or not.
InitAuth ==
    /\ conversations = [c \in ConvIds |-> NoRow]
    /\ messages = <<>>
    /\ created = {}
    /\ kind = [r \in Requests |-> "none"]
    /\ pc = [r \in Requests |-> "idle"]
    /\ conversation_id = [r \in Requests |-> ""]
    /\ is_first_message = [r \in Requests |-> FALSE]
    /\ conversation = [r \in Requests |-> <<>>]
    /\ conversation_history = [r \in Requests |-> <<>>]
    /\ title_task = [r \in Requests |-> "none"]
    /\ events = [r \in Requests |-> <<>>]
    /\ calls = [r \in Requests |-> <<>>]
    /\ history_args = [r \in Requests |-> <<>>]
    /\ raised = [r \in Requests |-> NoError]
    /\ status = [r \in Requests |-> 0]
    /\ persisted = [r \in Requests |-> 0]
    /\ builder_messages = <<>>
    /\ builder_result = <<>>
    /\ builder_done = FALSE
    /\ deleted = {}
    /\ passed = [c \in StoreIds |-> <<>>]
    /\ last_call = NoCall
    /\ AUTH_PASSWORD \in {NoPassword, ThePassword}
    /\ failed_attempts = [ip \in IPs |-> NoAttempts]
    /\ now = 0
    /\ response = NoResponse

AuthFrame == UNCHANGED <<dbvars, reqvars, builder_messages, builder_result,
                         builder_done, storevars, AUTH_PASSWORD>>

\* The answer to a request: the status, and whether call_next ran (the
\* route handler was reached; its own status is taken as 200).
Respond(ip, path, header, code, reached) ==
    response' = [ip |-> ip, path |-> path, header |-> header.kind,
                 password |-> header.password, status |-> code,
                 handled |-> reached]

\* auth_middleware for one request.
auth_middleware(path, forwarded_for, host, header) ==
    LET ip == client_ip(forwarded_for, host)
    IN  /\ CASE path = "/health" ->
                  /\ Respond(ip, path, header, 200, TRUE)
                  /\ UNCHANGED failed_attempts
             [] path # "/health" /\ AUTH_PASSWORD = NoPassword ->
                  /\ Respond(ip, path, header, 200, TRUE)
                  /\ UNCHANGED failed_attempts
             [] OTHER ->
                  LET pruned == is_rate_limited_effect(failed_attempts, ip, now)
                  IN  IF is_rate_limited(failed_attempts, ip, now)
                      THEN /\ Respond(ip, path, header, 429, FALSE)
                           /\ failed_attempts' = pruned
                      ELSE IF CredentialsPass(header, AUTH_PASSWORD)
                      THEN /\ Respond(ip, path, header, 200, TRUE)
                           /\ failed_attempts' = clear_failed_attempts(pruned, ip)
                      ELSE /\ Respond(ip, path, header, 401, FALSE)
                           /\ failed_attempts' = record_failed_attempt(pruned, ip, now)
        /\ UNCHANGED now
        /\ AuthFrame

\* Time passes between requests, half a window at a time.
ClockStep == RATE_LIMIT_WINDOW \div 2
Tick ==
    /\ now < MaxTicks * ClockStep
    /\ now' = now + ClockStep
    /\ UNCHANGED <<failed_attempts, response>>
    /\ AuthFrame

Paths == {"/health", "/api/conversations"}

NextAuth ==
    \/ \E path \in Paths, forwarded_for \in ForwardedFors, host \in IPs,
          header \in AuthHeaders :
            auth_middleware(path, forwarded_for, host, header)
    \/ Tick

SpecAuth == InitAuth /\ [][NextAuth]_vars

\* -------------------------------------------------------------- properties
EventTypes(r) == [i \in 1..Len(events[r]) |-> events[r][i].type]
IsPrefix(s, t) == Len(s) <= Len(t) /\ \A i \in 1..Len(s) : s[i] = t[i]
Occurs(x, s) == \E i \in 1..Len(s) : s[i] = x
Count(x, s) == Cardinality({i \in 1..Len(s) : s[i] = x})
Streaming(r) == kind[r] = "stream" /\ status[r] = 200
AssistantRowsOf(r) ==
    {i \in 1..Len(messages) : messages[i].req = r /\ messages[i].role = "assistant"}
RowsOfRequest(r) == {i \in 1..Len(messages) : messages[i].req = r}

FirstTurnOrder ==
    <<"stage1_start", "stage1_complete", "stage2_start", "stage2_complete",
      "stage3_start", "stage3_complete", "title_complete", "complete">>
LaterTurnOrder ==
    <<"stage1_start", "stage1_complete", "stage2_start", "stage2_complete",
      "stage3_start", "stage3_complete", "complete">>

\* C1: a streaming turn on a conversation without messages in which no call
\* raises emits stage1_start, stage1_complete, stage2_start, stage2_complete,
\* stage3_start, stage3_complete, title_complete, complete in this order -
\* a prefix of it while the generator runs, all of it once it has returned -
\* whenever the title task finishes.
C1_FirstTurnEventOrder ==
    \A r \in Requests :
        (Streaming(r) /\ is_first_message[r] /\ raised[r] = NoError) =>
            /\ IsPrefix(EventTypes(r), FirstTurnOrder)
            /\ pc[r] = "done" => EventTypes(r) = FirstTurnOrder

\* A first turn ran to its end without an exception and emitted all eight
\* events.
C1_Witness ==
    \E r \in Requests :
        /\ Streaming(r) /\ is_first_message[r] /\ raised[r] = NoError
        /\ pc[r] = "done" /\ Len(events[r]) = 8

\* C2: the events of a streaming request are a prefix of the canonical order
\* (with title_complete or without), then at most one error event; no type
\* occurs twice, title_complete occurs only if the conversation had no
\* messages at request time, and complete or error is the last event.
C2_EventSequenceShape ==
    \A r \in Requests :
        Streaming(r) =>
            LET t == EventTypes(r)
                n == Len(t)
                body == IF n > 0 /\ t[n] = "error" THEN SubSeq(t, 1, n - 1) ELSE t
            IN  /\ IsPrefix(body, FirstTurnOrder) \/ IsPrefix(body, LaterTurnOrder)
                /\ \A i \in 1..n : Count(t[i], t) = 1
                /\ Occurs("title_complete", t) => is_first_message[r]
                /\ \A i \in 1..n : t[i] \in {"complete", "error"} => i = n

\* A later turn (no title_complete) ended with an error after stage3_complete.
C2_Witness ==
    \E r \in Requests :
        /\ Streaming(r) /\ ~is_first_message[r] /\ pc[r] = "done"
        /\ EventTypes(r) = SubSeq(LaterTurnOrder, 1, 6) \o <<"error">>

StageErrors == {Stage1Error, Stage2Error, AggregateError, Stage3Error}

\* C3: when a stage call of a streaming request raised, the stream holds
\* exactly one error event, the last one, carrying the failure message; it
\* holds no complete event and the store never gets an assistant message of
\* that request.
C3_StageFailureEndsInError ==
    \A r \in Requests :
        (Streaming(r) /\ raised[r] \in StageErrors) =>
            /\ events[r] # <<>>
            /\ events[r][Len(events[r])].type = "error"
            /\ events[r][Len(events[r])].message = raised[r]
            /\ Count("error", EventTypes(r)) = 1
            /\ ~Occurs("complete", EventTypes(r))
            /\ persisted[r] = 0
            /\ AssistantRowsOf(r) = {}

\* Stage 3 raised and the generator has returned.
C3_Witness ==
    \E r \in Requests :
        Streaming(r) /\ raised[r] = Stage3Error /\ pc[r] = "done"

\* C4: on a first turn whose stages succeed and whose title call raises, the
\* turn is still stored, the title stays the placeholder, the stream ends
\* with complete, without title_complete and without error; the synchronous
\* request is answered 200 with its turn stored.
C4_TitleFailureIsNotFatal ==
    \A r \in Requests :
        /\ ( /\ Streaming(r) /\ is_first_message[r] /\ pc[r] = "done"
             /\ title_task[r] = "failed" /\ Occurs("stage3_return", calls[r])
             /\ raised[r] # NotFoundError )
           => /\ persisted[r] = 1
              /\ conversations[conversation_id[r]].title # GeneratedTitle(r)
              /\ events[r][Len(events[r])].type = "complete"
              /\ ~Occurs("title_complete", EventTypes(r))
              /\ ~Occurs("error", EventTypes(r))
        /\ (kind[r] = "sync" /\ pc[r] = "done" /\ Occurs("title_raise", calls[r]))
           => status[r] = 200 /\ persisted[r] = 1

\* C5: a send-message request that has ended either recorded its complete
\* turn, or reported an error and left nothing of the turn in the store: no
\* message of it, and not the title generated for it.
C5_NoPartialTurnRecorded ==
    \A r \in Requests :
        (kind[r] # "none" /\ pc[r] = "done") =>
            \/ raised[r] = NoError /\ persisted[r] = 1
            \/ /\ raised[r] # NoError
               /\ RowsOfRequest(r) = {}
               /\ conversations[conversation_id[r]].title # GeneratedTitle(r)

\* C6: a stream that holds complete has stored its turn - one assistant row
\* with the stage 1, stage 2, stage 3 results and metadata of that request -
\* exactly once; a stream that does not hold complete has stored no assistant
\* message.
C6_CompleteAfterPersistedOnce ==
    \A r \in Requests :
        Streaming(r) =>
            /\ Occurs("complete", EventTypes(r)) =>
                  /\ persisted[r] = 1
                  /\ Cardinality(AssistantRowsOf(r)) = 1
                  /\ \A i \in AssistantRowsOf(r) :
                        messages[i] = AssistantRow(conversation_id[r],
                            Stage1Results(r), Stage2Results(r), Stage3Result(r),
                            Metadata(r), r)
            /\ ~Occurs("complete", EventTypes(r)) =>
                  persisted[r] = 0 /\ AssistantRowsOf(r) = {}

\* A stream ended with complete.
C6_Witness ==
    \E r \in Requests :
        Streaming(r) /\ pc[r] = "done" /\ Occurs("complete", EventTypes(r))

\* C7: a generator torn down before it yielded complete has stored no
\* assistant message.
C7_TeardownBeforeCompleteStoresNothing ==
    \A r \in Requests :
        (Streaming(r) /\ pc[r] = "cancelled" /\ ~Occurs("complete", EventTypes(r)))
            => persisted[r] = 0 /\ AssistantRowsOf(r) = {}

\* A generator was torn down at the title_complete yield, the last
\* suspension point before complete.
C7_Witness ==
    \E r \in Requests :
        /\ Streaming(r) /\ pc[r] = "cancelled"
        /\ events[r] # <<>> /\ events[r][Len(events[r])].type = "title_complete"

\* C8: in a streaming turn stage 2 is called only after stage 1 returned,
\* stage 3 only after stage 2 and the aggregation returned; stage 3 is called
\* at most once, exactly once in a turn that got a stage 3 result or failure,
\* and never in a turn whose stage 1, stage 2 or aggregation raised.
C8_StagesSequential ==
    \A r \in Requests :
        Streaming(r) =>
            LET c == calls[r]
                Before(x, i) == \E j \in 1..(i - 1) : c[j] = x
            IN  /\ \A i \in 1..Len(c) :
                      c[i] = "stage2_call" => Before("stage1_return", i)
                /\ \A i \in 1..Len(c) :
                      c[i] = "stage3_call" =>
                          Before("stage2_return", i) /\ Before("aggregate_return", i)
                /\ Count("stage3_call", c) <= 1
                /\ (Occurs("stage3_complete", EventTypes(r)) \/ raised[r] = Stage3Error)
                      => Count("stage3_call", c) = 1
                /\ (Occurs("stage1_raise", c) \/ Occurs("stage2_raise", c)
                       \/ Occurs("aggregate_raise", c)) => ~Occurs("stage3_call", c)

\* Stage 3 returned in a streaming turn.
C8_Witness ==
    \E r \in Requests : Streaming(r) /\ Occurs("stage3_return", calls[r])

\* The scan C9 specifies, from message i (1-based): a user message followed
\* at once by an assistant message that has a stage3 response gives an entry
\* and the scan moves on by two; any other message is skipped.
RECURSIVE SpecifiedScan(_, _)
SpecifiedScan(msgs, i) ==
    IF i > Len(msgs) THEN <<>>
    ELSE IF /\ msgs[i].role = "user"
            /\ i + 1 <= Len(msgs)
            /\ msgs[i + 1].role = "assistant"
            /\ msgs[i + 1].stage3.kind = "resp"
         THEN <<[question |-> msgs[i].content, verdict |-> msgs[i + 1].stage3.v]>>
              \o SpecifiedScan(msgs, i + 2)
         ELSE SpecifiedScan(msgs, i + 1)

\* C9: build_conversation_history returns what the specified scan returns,
\* for every stored message list.
C9_BuilderIsSpecifiedScan ==
    builder_done => builder_result = SpecifiedScan(builder_messages, 1)

\* C10: the messages a request builds its history from do not hold the
\* request's own question, and no entry of its history has it as question.
C10_HistoryExcludesOwnQuestion ==
    \A r \in Requests :
        kind[r] # "none" =>
            /\ \A i \in 1..Len(conversation[r]) :
                  ~(conversation[r][i].role = "user"
                    /\ conversation[r][i].content = Content(r))
            /\ \A i \in 1..Len(conversation_history[r]) :
                  conversation_history[r][i].question # Content(r)

\* A request with a history of earlier turns has stored its own question.
C10_Witness ==
    \E r \in Requests :
        /\ kind[r] # "none" /\ conversation_history[r] # <<>>
        /\ RowsOfRequest(r) # {}

\* C11: every history argument a request passes to stage 1, stage 2, stage 3
\* or run_full_council is None when build_conversation_history derives no
\* (question, verdict) pair from the messages the request read, and is the
\* derived non-empty list when it derives one; an empty list is never passed.
C11_EmptyHistoryPassedAsNone ==
    \A r \in Requests :
        \A i \in 1..Len(history_args[r]) :
            LET derived == build_conversation_history(conversation[r])
                arg == history_args[r][i]
            IN  /\ Len(derived) = 0 => ~arg.present
                /\ Len(derived) > 0 => arg.present /\ arg.entries = derived
                /\ arg.present => Len(arg.entries) > 0

\* A streaming first turn passed None to all three stages and a later request
\* passed the one pair of that turn.
C11_Witness ==
    \E r, q \in Requests :
        /\ Len(history_args[r]) = 3 /\ ~history_args[r][3].present
        /\ history_args[q] # <<>> /\ history_args[q][1].present
        /\ Len(history_args[q][1].entries) = 1

\* C12: a send-message request for a conversation that does not exist at
\* request time is answered 404 with no council call made and no message
\* stored; a request that met the storage layer's "not found" later in its
\* turn (the conversation was deleted while the turn was in flight) reports
\* not-found to its caller - status 404, or on an open stream a final error
\* event saying so - and has stored no assistant message.
C12_NotFoundPropagated ==
    \A r \in Requests :
        /\ (kind[r] # "none" /\ conversation_id[r] \notin created) => status[r] = 404
        /\ status[r] = 404 =>
              /\ calls[r] = <<>> /\ history_args[r] = <<>>
              /\ RowsOfRequest(r) = {} /\ persisted[r] = 0
        /\ (kind[r] # "none" /\ pc[r] = "done" /\ raised[r] = NotFoundError) =>
              /\ persisted[r] = 0 /\ AssistantRowsOf(r) = {}
              /\ \/ status[r] = 404
                 \/ /\ Streaming(r) /\ events[r] # <<>>
                    /\ events[r][Len(events[r])] = ErrorEvent(NotFoundError)

\* The event of the given type in the stream of request r.
EventOf(r, type) ==
    events[r][CHOOSE i \in 1..Len(events[r]) : events[r][i].type = type]

\* C13: in a streaming turn the aggregate ranking is computed at most once,
\* directly after stage 2 returned and before stage2_complete is yielded
\* (the event is there exactly when the computation returned), and the
\* assistant message read back from the store has the stage 1, stage 2 and
\* stage 3 data of the stage1_complete, stage2_complete and stage3_complete
\* events and the metadata of the stage2_complete event.
C13_PersistedEqualsStreamed ==
    \A r \in Requests :
        Streaming(r) =>
            LET c == calls[r]
                t == EventTypes(r)
            IN  /\ Count("aggregate_call", c) <= 1
                /\ \A i \in 1..Len(c) :
                      c[i] = "aggregate_call" => i > 1 /\ c[i - 1] = "stage2_return"
                /\ Occurs("stage2_complete", t) <=> Occurs("aggregate_return", c)
                /\ \A i \in AssistantRowsOf(r) :
                      LET stored == RowToMessage(messages[i])
                      IN  /\ Occurs("stage1_complete", t)
                          /\ Occurs("stage2_complete", t)
                          /\ Occurs("stage3_complete", t)
                          /\ stored.stage1 = EventOf(r, "stage1_complete").data
                          /\ stored.stage2 = EventOf(r, "stage2_complete").data
                          /\ stored.metadata = EventOf(r, "stage2_complete").metadata
                          /\ stored.stage3 = EventOf(r, "stage3_complete").data

\* A streaming turn was stored after its three complete events.
C13_Witness ==
    \E r \in Requests :
        /\ Streaming(r) /\ AssistantRowsOf(r) # {}
        /\ Occurs("aggregate_return", calls[r])
        /\ Truthy(EventOf(r, "stage2_complete").metadata)

StoreWriteOps == {"create_conversation", "add_user_message",
                  "add_assistant_message", "update_conversation_title"}
StoreAddOps == {"add_user_message", "add_assistant_message"}

\* What one call of create_conversation, add_user_message,
\* add_assistant_message or update_conversation_title does to the messages
\* and titles stored.
C14_Step ==
    (last_call' # last_call /\ last_call'.op \in StoreWriteOps) =>
        \A c \in StoreIds :
            LET before == get_conversation_messages(messages, c)
                after == get_conversation_messages(messages', c)
                own == c = last_call'.cid
                added == last_call'.op \in StoreAddOps /\ last_call'.ret = "None"
            IN  /\ IsPrefix(before, after)
                /\ Len(after) = Len(before) + (IF own /\ added THEN 1 ELSE 0)
                /\ ~own => conversations'[c] = conversations[c]
                /\ last_call'.op \in StoreAddOps => conversations'[c] = conversations[c]

\* C14: every call of create_conversation, add_user_message,
\* add_assistant_message or update_conversation_title leaves the messages
\* already stored in every conversation as they are, in their order; an add
\* call appends exactly one message at the end of its own conversation, and
\* no call changes the messages or the title of another conversation.
C14_StoredTurnsImmutable == [][C14_Step]_vars

\* An add call appended a message to a conversation that already held one,
\* while another conversation is stored.
C14_Witness ==
    /\ last_call.op \in StoreAddOps /\ last_call.ret = "None"
    /\ Len(get_conversation_messages(messages, last_call.cid)) >= 2
    /\ \E c \in StoreIds :
          c # last_call.cid /\ ConversationExists(conversations, c)

\* The message read back is the message passed in: same role, content and
\* stage values, and the metadata passed (a metadata of None reads back as no
\* metadata).
ReadsBackAs(got, given) ==
    /\ got.role = given.role
    /\ got.content = given.content
    /\ got.stage1 = given.stage1
    /\ got.stage2 = given.stage2
    /\ got.stage3 = given.stage3
    /\ \/ got.metadata = given.metadata
       \/ given.metadata = PyNone /\ got.metadata = Absent

\* C15: for a stored conversation (whose id was never deleted),
\* get_conversation returns one message per add_user_message /
\* add_assistant_message call made on it, in call order, each with the role
\* and the content / stage1 / stage2 / stage3 / metadata passed in - also
\* when the metadata passed is an empty mapping.
C15_StoreThenReadRoundTrip ==
    \A c \in StoreIds :
        (ConversationExists(conversations, c) /\ c \notin deleted) =>
            LET got == get_conversation(conversations, messages, c).messages
            IN  /\ Len(got) = Len(passed[c])
                /\ \A i \in 1..Len(got) : ReadsBackAs(got[i], passed[c][i])

\* What delete_conversation(cid) returns and leaves behind.
C16_Step ==
    (last_call' # last_call /\ last_call'.op = "delete_conversation") =>
        LET c == last_call'.cid
        IN  /\ last_call'.ret = "True" <=> ConversationExists(conversations, c)
            /\ last_call'.ret = "False" <=> ~ConversationExists(conversations, c)
            /\ ~get_conversation(conversations', messages', c).found
            /\ \A e \in list_conversations(conversations', messages') : e.id # c
            /\ \A o \in StoreIds \ {c} :
                  get_conversation(conversations', messages', o)
                      = get_conversation(conversations, messages, o)
            /\ list_conversations(conversations', messages')
                  = {e \in list_conversations(conversations, messages) : e.id # c}

\* C16: delete_conversation returns True exactly when the conversation was
\* stored and False otherwise; after it get_conversation of that id returns
\* None, list_conversations does not list the id, and every other
\* conversation reads and lists as before.
C16_DeleteConversation == [][C16_Step]_vars

\* A stored conversation was deleted while another conversation with a
\* message is stored.
C16_Witness ==
    /\ last_call.op = "delete_conversation" /\ last_call.ret = "True"
    /\ \E o \in StoreIds :
          /\ o # last_call.cid
          /\ get_conversation(conversations, messages, o).found
          /\ Len(get_conversation(conversations, messages, o).messages) >= 1

\* C18: in every reachable state the messages stored for a conversation
\* alternate user, assistant, user, assistant ..., starting with a user
\* message.
C18_MessagesAlternate ==
    \A cid \in ConvIds :
        LET stored == get_conversation_messages(messages, cid)
        IN  \A i \in 1..Len(stored) :
                stored[i].role = IF i % 2 = 1 THEN "user" ELSE "assistant"

\* A step of the middleware that serves a request subject to authentication:
\* a password is configured and the path is not /health.
AuthenticatedRoute ==
    /\ now' = now
    /\ AUTH_PASSWORD # NoPassword
    /\ response'.path # "/health"

\* The failed attempts recorded for ip that are less than a window old.
RecentFailures(attempts, ip, t_now) ==
    Cardinality({i \in 1..Len(attempts[ip].times) :
                    t_now - attempts[ip].times[i] < RATE_LIMIT_WINDOW})

\* C17: with a password configured, the request served last reached its route
\* handler only if its path is /health or it carried a Basic header whose
\* password is the configured one; a request to /health is always handed to
\* its handler.
C17_OnlyAuthenticatedRequestsHandled ==
    /\ (AUTH_PASSWORD # NoPassword /\ response.handled /\ response.path # "/health")
          => response.header = "basic" /\ response.password = AUTH_PASSWORD
    /\ response.path = "/health" => response.handled /\ response.status = 200

\* With a password configured, a request with the right password reached its
\* handler from an address that no longer has failed attempts recorded while
\* another address has some.
C17_Witness ==
    /\ AUTH_PASSWORD = ThePassword
    /\ response.path # "/health" /\ response.handled
    /\ response.header = "basic" /\ response.password = ThePassword
    /\ \E o \in IPs : o # response.ip /\ Len(failed_attempts[o].times) > 0

\* What the rate limit does with one request subject to authentication.
C19_Step ==
    AuthenticatedRoute =>
        LET ip == response'.ip
        IN  /\ response'.status = 429
                  <=> RecentFailures(failed_attempts, ip, now) >= RATE_LIMIT_MAX_ATTEMPTS
            /\ response'.status = 429 =>
                  /\ ~response'.handled
                  /\ RecentFailures(failed_attempts', ip, now)
                        = RecentFailures(failed_attempts, ip, now)
                  /\ Len(failed_attempts'[ip].times) <= Len(failed_attempts[ip].times)
                  /\ \A i \in 1..Len(failed_attempts'[ip].times) :
                        failed_attempts'[ip].times[i] < now
                           \/ \E j \in 1..Len(failed_attempts[ip].times) :
                                 failed_attempts[ip].times[j] = now

\* C19: a request subject to authentication is answered 429 exactly when its
\* address has at least RATE_LIMIT_MAX_ATTEMPTS failed attempts recorded
\* less than RATE_LIMIT_WINDOW seconds ago; a request answered 429 does not
\* reach a handler whatever its credentials, and records no failed attempt.
C19_RateLimit == [][C19_Step]_vars

\* A request with the right password was answered 429.
C19_Witness ==
    /\ response.status = 429
    /\ response.header = "basic" /\ response.password = AUTH_PASSWORD
    /\ now > 0

\* What one request subject to authentication does to failed_attempts.
C20_Step ==
    AuthenticatedRoute =>
        LET ip == response'.ip
            authenticated == /\ response'.header = "basic"
                             /\ response'.password = AUTH_PASSWORD
        IN  /\ \A o \in IPs \ {ip} : failed_attempts'[o] = failed_attempts[o]
            /\ (response'.status # 429 /\ authenticated) =>
                  /\ response'.status = 200 /\ response'.handled
                  /\ failed_attempts'[ip] = NoAttempts
            /\ (response'.status # 429 /\ ~authenticated) =>
                  /\ response'.status = 401 /\ ~response'.handled
                  /\ RecentFailures(failed_attempts', ip, now)
                        = RecentFailures(failed_attempts, ip, now) + 1
                  /\ failed_attempts'[ip].times[Len(failed_attempts'[ip].times)] = now
            /\ response'.status = 429 =>
                  Len(failed_attempts[ip].times) >= RATE_LIMIT_MAX_ATTEMPTS

C21_Step ==
    (/\ last_call' # last_call
     /\ last_call'.op \in StoreAddOps \cup {"update_conversation_title"}
     /\ ~ConversationExists(conversations, last_call'.cid)) =>
        /\ last_call'.ret = "ValueError"
        /\ messages' = messages
        /\ conversations' = conversations
        /\ \A c \in StoreIds :
              get_conversation(conversations', messages', c)
                  = get_conversation(conversations, messages, c)

\* C21: add_user_message, add_assistant_message and
\* update_conversation_title called with an id no conversation has raise
\* ValueError; the adds insert no message and the title update changes no
\* conversation's title.
C21_MissingConversationRaises == [][C21_Step]_vars

\* add_assistant_message raised for an id whose conversation was deleted,
\* with messages in the store.
C21_Witness ==
    /\ last_call.op = "add_assistant_message" /\ last_call.ret = "ValueError"
    /\ last_call.cid \in deleted
    /\ Len(messages) > 0

\* The entry pairs the question of some request with the verdict synthesized
\* for that request.
OwnVerdict(entry) ==
    \E r \in Requests :
        /\ entry.question = Content(r)
        /\ entry.verdict = GetResponse(Stage3Result(r))

\* C22: in every reachable state, every entry build_conversation_history
\* derives from the messages stored for a conversation, and every entry of
\* the history a request works with, pairs a question with the verdict that
\* was synthesized for that question.
C22_HistoryPairsOwnVerdict ==
    /\ \A cid \in ConvIds :
          LET history == build_conversation_history(
                             get_conversation_messages(messages, cid))
          IN  \A i \in 1..Len(history) : OwnVerdict(history[i])
    /\ \A r \in Requests :
          \A i \in 1..Len(conversation_history[r]) :
              OwnVerdict(conversation_history[r][i])

\* C23: right after create_conversation(id) - in particular after
\* delete_conversation(id) followed by create_conversation(id) -
\* get_conversation(id) returns an empty message list and list_conversations
\* reports message_count 0 for the id.
C23_DeleteRemovesMessages ==
    last_call.op = "create_conversation" =>
        /\ get_conversation(conversations, messages, last_call.cid).found
        /\ get_conversation(conversations, messages, last_call.cid).messages = <<>>
        /\ \A e \in list_conversations(conversations, messages) :
              e.id = last_call.cid => e.message_count = 0
====
